---- MODULE Spec2Model ----
(***************************************************************************)
(* Model of the SUGIPQ browser scripts:                                    *)
(*   - the number formatting functions formatoNumero, formatoMoneda,       *)
(*     formatoPorcentaje, formatoCompacto and the declarative pass         *)
(*     formatearElementos (src/unnamed/part_000);                          *)
(*   - the page initialiser and the dashboard clock updateDateTime         *)
(*     (src/static/js/main.js).                                            *)
(*                                                                         *)
(* JavaScript values are records tagged by the field t:                    *)
(*   [t |-> "num", neg, ent, mil]  a finite number, sign / integer part /  *)
(*                                 thousandths (0..999)                    *)
(*   [t |-> "nan"]                 NaN                                     *)
(*   [t |-> "undef"], [t |-> "null"]                                       *)
(*   [t |-> "str", s |-> <<...>>]  a string, as a sequence of characters   *)
(* Strings produced by the program are sequences of one-character strings. *)
(***************************************************************************)
EXTENDS Integers, Sequences, FiniteSets, TLC

VARIABLES
    limFD,      \* the engine's upper limit for maximumFractionDigits
    llamada,    \* the last direct call of a formatting function (name, args)
    resultado,  \* the string that call returned
    dom,        \* the page: element -> attributes and textContent
    escuchas,   \* the DOMContentLoaded listeners, in registration order
    cargado,    \* TRUE once DOMContentLoaded has been dispatched
    pasadas,    \* number of runs of formatearElementos so far
    historia,   \* per run of formatearElementos: the texts before and after it
    timers,     \* pending alert timeouts (elements) of main.js
    intervalo,  \* TRUE once setInterval(updateDateTime, 1000) is armed
    ahora,      \* the clock, in seconds since page load
    escritoPor, \* element -> routines that wrote its textContent (history)
    leidoPor    \* element -> routines that read its textContent (history)

vars == <<limFD, llamada, resultado, dom, escuchas, cargado, pasadas, historia,
          timers, intervalo, ahora, escritoPor, leidoPor>>

varsFn == <<llamada, resultado>>
varsDom == <<dom, escuchas, cargado, pasadas, historia, timers, intervalo, ahora,
             escritoPor, leidoPor>>

-----------------------------------------------------------------------------
(* Bounds of the model *)

\* decimal-place counts 0..MaxDec are all tried (besides the engine limits)
MaxDec == 3
\* the clock fires at most MaxTicks times
MaxTicks == 1
\* formatearElementos runs at most MaxPasadas times (page load + re-runs)
MaxPasadas == 2

-----------------------------------------------------------------------------
(* JavaScript values *)

Num(neg, ent, mil) == [t |-> "num", neg |-> neg, ent |-> ent, mil |-> mil]
Pos(ent, mil) == Num(FALSE, ent, mil)
Neg(ent, mil) == Num(TRUE, ent, mil)
Cero == Pos(0, 0)
NaN == [t |-> "nan"]
Undef == [t |-> "undef"]
Null == [t |-> "null"]
Str(s) == [t |-> "str", s |-> s]

EsCero(x) == x.t = "num" /\ x.ent = 0 /\ x.mil = 0

\* x < y for a positive integer y (false for NaN)
MenorQue(x, y) == x.t = "num" /\ (x.neg \/ x.ent < y)

\* x >= y for a positive integer y (false for NaN)
MayorIgual(x, y) == x.t = "num" /\ ~ x.neg /\ x.ent >= y

\* x * 100 (exact on the decimal value)
Por100(x) == Num(x.neg, x.ent * 100 + (x.mil \div 10), (x.mil % 10) * 100)

-----------------------------------------------------------------------------
(* Characters and digit strings *)

Digitos == <<"0", "1", "2", "3", "4", "5", "6", "7", "8", "9">>
Dig(k) == Digitos[k + 1]
EsDigito(c) == \E k \in 0..9 : Dig(k) = c
ValDig(c) == CHOOSE k \in 0..9 : Dig(k) = c

RECURSIVE DigitosDe(_)
\* the decimal digits of a natural number, most significant first
DigitosDe(n) == IF n < 10 THEN <<Dig(n)>> ELSE Append(DigitosDe(n \div 10), Dig(n % 10))

RECURSIVE Ceros(_)
Ceros(k) == IF k <= 0 THEN <<>> ELSE <<"0">> \o Ceros(k - 1)

RECURSIVE Pot10(_)
Pot10(k) == IF k <= 0 THEN 1 ELSE 10 * Pot10(k - 1)

RECURSIVE Agrupar(_)
\* insert the es-CO group separator "." every three digits from the right
Agrupar(ds) ==
    IF Len(ds) <= 3 THEN ds
    ELSE Agrupar(SubSeq(ds, 1, Len(ds) - 3)) \o <<".">> \o SubSeq(ds, Len(ds) - 2, Len(ds))

RECURSIVE QuitarCeros(_)
\* drop trailing zeros
QuitarCeros(ds) ==
    IF ds # <<>> /\ ds[Len(ds)] = "0" THEN QuitarCeros(SubSeq(ds, 1, Len(ds) - 1)) ELSE ds

\* the three thousandth digits of a number
DigitosMil(mil) == <<Dig(mil \div 100), Dig((mil \div 10) % 10), Dig(mil % 10)>>

-----------------------------------------------------------------------------
(* Built-ins of the JavaScript engine used by the scripts *)

RECURSIVE SinBlancos(_)
\* StrWhiteSpace is skipped at the start of the argument of parseFloat / parseInt
SinBlancos(s) == IF s # <<>> /\ s[1] = " " THEN SinBlancos(Tail(s)) ELSE s

RECURSIVE NumDigitos(_)
\* length of the longest prefix of s made of decimal digits
NumDigitos(s) == IF s # <<>> /\ EsDigito(s[1]) THEN 1 + NumDigitos(Tail(s)) ELSE 0

RECURSIVE ValorDe(_)
\* the natural number written by a sequence of digits
ValorDe(ds) ==
    IF ds = <<>> THEN 0 ELSE 10 * ValorDe(SubSeq(ds, 1, Len(ds) - 1)) + ValDig(ds[Len(ds)])

\* String(v) for the values passed where a string is expected
AString(v) ==
    CASE v.t = "str" -> v.s
      [] v.t = "null" -> <<"n", "u", "l", "l">>
      [] v.t = "undef" -> <<"u", "n", "d", "e", "f", "i", "n", "e", "d">>
      [] v.t = "nan" -> <<"N", "a", "N">>

\* a StrDecimalLiteral at the start of s: optional sign, digits, optional "."
\* and digits; the longest such prefix is the number, NaN when it holds no
\* digit.  (Exponents and "Infinity" are not modelled: the texts of the model
\* hold neither; at most three fractional digits occur in them.)
LeerDecimal(s) ==
    LET s1 == SinBlancos(s)
        sgn == s1 # <<>> /\ s1[1] \in {"-", "+"}
        s2 == IF sgn THEN Tail(s1) ELSE s1
        ni == NumDigitos(s2)
        r == SubSeq(s2, ni + 1, Len(s2))
        nf == IF r # <<>> /\ r[1] = "." THEN NumDigitos(Tail(r)) ELSE 0
        fr == SubSeq(SubSeq(r, 2, nf + 1) \o <<"0", "0", "0">>, 1, 3)
    IN  IF ni = 0 /\ nf = 0 THEN NaN
        ELSE Num(sgn /\ s1[1] = "-", ValorDe(SubSeq(s2, 1, ni)), ValorDe(fr))

RECURSIVE DeEsCO(_)
\* s with the "." group separators dropped and the decimal "," turned into "."
DeEsCO(s) ==
    IF s = <<>> THEN <<>>
    ELSE IF s[1] = "." THEN DeEsCO(Tail(s))
    ELSE <<IF s[1] = "," THEN "." ELSE s[1]>> \o DeEsCO(Tail(s))

\* a parseFloat that reads the es-CO notation
parseFloatStr_esCO(s) == LeerDecimal(DeEsCO(s))

\* parseFloat of a string
parseFloatStr(s) == LeerDecimal(s)

\* parseFloat(v): a number is converted to its string and read back, which
\* yields the same number
parseFloat(v) == IF v.t = "num" THEN v ELSE parseFloatStr(AString(v))

\* parseInt(v) (radix 10): optional sign and digits; NaN without a digit
parseInt(v) ==
    LET s1 == SinBlancos(AString(v))
        sgn == s1 # <<>> /\ s1[1] \in {"-", "+"}
        s2 == IF sgn THEN Tail(s1) ELSE s1
        ni == NumDigitos(s2)
    IN  IF ni = 0 THEN NaN ELSE Num(sgn /\ s1[1] = "-", ValorDe(SubSeq(s2, 1, ni)), 0)

\* the coercion without its  || 0
OCero_Identidad(x) == x

\* the idiom  x || 0  on a number: NaN, 0 and -0 are falsy
OCero(x) == IF x.t = "nan" \/ EsCero(x) THEN Cero ELSE x

\* a default parameter value replaces an argument that is undefined
PorDefecto(arg, def) == IF arg.t = "undef" THEN def ELSE arg

\* the integer a whole number stands for
AEntero(x) == IF x.neg THEN 0 - x.ent ELSE x.ent
Entero(k) == IF k < 0 THEN Neg(0 - k, 0) ELSE Pos(k, 0)

\* the engines' limits for maximumFractionDigits: 20 up to ES2022, 100 since
LimitesFD == {20, 100}

\* toLocaleString throws a RangeError when minimumFractionDigits or
\* maximumFractionDigits is outside 0..limFD
RangeError(d) == d < 0 \/ d > limFD

\* x rounded half away from zero to d fractional digits: <<integer part, fraction digits>>
Redondear(x, d) ==
    IF d >= 3 THEN <<x.ent, DigitosMil(x.mil) \o Ceros(d - 3)>>
    ELSE LET esc == Pot10(3 - d)
             q == (x.mil \div esc) + (IF 2 * (x.mil % esc) >= esc THEN 1 ELSE 0)
             lleva == q = Pot10(d)
             fr == DigitosDe(IF lleva THEN 0 ELSE q)
         IN  <<x.ent + (IF lleva THEN 1 ELSE 0),
               IF d = 0 THEN <<>> ELSE Ceros(d - Len(fr)) \o fr>>

\* x.toLocaleString('es-CO', {minimumFractionDigits: d, maximumFractionDigits: d})
\* for d in range: sign, integer digits grouped by "." (from four digits on:
\* 1234.56 -> "1.234,56"), then "," and d digits; a negative value that rounds
\* to zero keeps its sign
toLocaleString(x, d) ==
    IF x.t = "nan" THEN <<"N", "a", "N">>
    ELSE LET r == Redondear(x, d)
         IN  (IF x.neg THEN <<"-">> ELSE <<>>) \o Agrupar(DigitosDe(r[1]))
                 \o (IF d > 0 THEN <<",">> \o r[2] ELSE <<>>)

\* x.toString() for a number
toString(x) ==
    IF x.t = "nan" THEN <<"N", "a", "N">>
    ELSE (IF x.neg THEN <<"-">> ELSE <<>>) \o DigitosDe(x.ent)
             \o (IF x.mil = 0 THEN <<>> ELSE <<".">> \o QuitarCeros(DigitosMil(x.mil)))

RECURSIVE BitLen(_)
BitLen(n) == IF n = 0 THEN 0 ELSE 1 + BitLen(n \div 2)

RECURSIVE RedondeoBinario(_, _, _, _)
\* long division rem/div continued for `bits` binary digits, then IEEE 754
\* round-to-nearest-even on what is left: 1 when the double lies above the
\* exact quotient, -1 when below, 0 when the quotient is exact
RedondeoBinario(rem, div, bits, ultimo) ==
    IF bits = 0
    THEN IF rem = 0 THEN 0
         ELSE IF 2 * rem > div \/ (2 * rem = div /\ ultimo = 1) THEN 1 ELSE -1
    ELSE LET b == IF 2 * rem >= div THEN 1 ELSE 0
         IN  RedondeoBinario(2 * rem - b * div, div, bits - 1, b)

\* the sign of  (n / div as a double) - (n / div exactly), for integers n >= div:
\* the 53-bit significand holds the bits of the integer part and then fraction bits
ErrorDivision(n, div) ==
    LET e == n \div div
    IN  RedondeoBinario(n % div, div, 53 - BitLen(e), e % 2)

\* (x / div).toFixed(1) for x >= div: the integer n with n/10 closest to the
\* double x/div, the larger n on a tie, printed with one digit after "."
toFixed1(x, div) ==
    LET u == div \div 10
        n == x.ent \div u
        r == x.ent % u
        sube == \/ 2 * r > u
                \/ 2 * r = u /\ x.mil > 0
                \/ 2 * r = u /\ x.mil = 0 /\ ErrorDivision(x.ent, div) >= 0
        m == IF sube THEN n + 1 ELSE n
    IN  DigitosDe(m \div 10) \o <<".">> \o <<Dig(m % 10)>>

-----------------------------------------------------------------------------
(* src/unnamed/part_000: the formatting functions.  Arguments are JavaScript  *)
(* values; an omitted argument is Undef.                                      *)

\* formatoNumero with the decimales argument ignored: always the branch without decimals
formatoNumero_SinDecimales(numero, decimales) ==
    toLocaleString(OCero(parseFloat(numero)), 0)

\* function formatoNumero(numero, decimales = 0)
formatoNumero(numero, decimales) ==
    LET dec == AEntero(PorDefecto(decimales, Entero(0)))
        n == OCero(parseFloat(numero))
    IN  IF dec > 0
        THEN IF RangeError(dec) THEN <<"0">>            \* catch (e)
             ELSE toLocaleString(n, dec)
        ELSE toLocaleString(n, 0)

\* formatoMoneda with a space between the symbol and the number
formatoMoneda_ConEspacio(numero, simbolo, decimales) ==
    AString(PorDefecto(simbolo, Str(<<"$">>))) \o <<" ">>
        \o formatoNumero(numero, PorDefecto(decimales, Entero(0)))

\* function formatoMoneda(numero, simbolo = '$', decimales = 0)
formatoMoneda(numero, simbolo, decimales) ==
    LET numeroFormateado == formatoNumero(numero, PorDefecto(decimales, Entero(0)))
    IN  AString(PorDefecto(simbolo, Str(<<"$">>))) \o numeroFormateado

\* formatoPorcentaje with the test  numero <= 1  in place of  numero < 1
formatoPorcentaje_MenorIgual(numero, decimales) ==
    LET dec == AEntero(PorDefecto(decimales, Entero(1)))
        n == OCero(parseFloat(numero))
        porcentaje == IF MenorQue(n, 1) \/ n = Pos(1, 0) THEN Por100(n) ELSE n
    IN  IF RangeError(dec) THEN <<"0", "%">>
        ELSE toLocaleString(porcentaje, dec) \o <<"%">>

\* function formatoPorcentaje(numero, decimales = 1)
formatoPorcentaje(numero, decimales) ==
    LET dec == AEntero(PorDefecto(decimales, Entero(1)))
        n == OCero(parseFloat(numero))
        porcentaje == IF MenorQue(n, 1) THEN Por100(n) ELSE n
    IN  IF RangeError(dec) THEN <<"0", "%">>            \* catch (e)
        ELSE toLocaleString(porcentaje, dec) \o <<"%">>

\* formatoCompacto with the thresholds tested from the smallest up
formatoCompacto_OrdenInverso(numero) ==
    LET n == OCero(parseFloat(numero))
    IN  IF MayorIgual(n, 1000) THEN toFixed1(n, 1000) \o <<"K">>
        ELSE IF MayorIgual(n, 1000000) THEN toFixed1(n, 1000000) \o <<"M">>
        ELSE IF MayorIgual(n, 1000000000) THEN toFixed1(n, 1000000000) \o <<"B">>
        ELSE toString(n)

\* function formatoCompacto(numero)
formatoCompacto(numero) ==
    LET n == OCero(parseFloat(numero))
    IN  IF MayorIgual(n, 1000000000) THEN toFixed1(n, 1000000000) \o <<"B">>
        ELSE IF MayorIgual(n, 1000000) THEN toFixed1(n, 1000000) \o <<"M">>
        ELSE IF MayorIgual(n, 1000) THEN toFixed1(n, 1000) \o <<"K">>
        ELSE toString(n)

-----------------------------------------------------------------------------
(* Arguments tried by the direct calls *)

EnterosMuestra ==
    (0..12) \cup {75, 99, 100, 999, 1000, 1001, 1050, 1150, 1234, 1250, 1499, 1500,
                  9999, 10000, 99949, 99950, 100000, 999949, 999950, 999999,
                  1000000, 1050000, 1500000, 2500000, 999949999, 999950000,
                  999999999, 1000000000, 1150000000, 1500000000, 2000000000}

\* fractions (thousandths) of the sample values; the values below 1 are those
\* whose product by 100 is exact in binary floating point
FraccionesMenor1 == {0, 1, 5, 45, 50, 125, 250, 495, 500, 855, 995, 999}
FraccionesMayor1 == {0, 50, 449, 500, 560, 999}
FraccionesNeg == {0, 50, 125, 250, 500}
EnterosNeg == {0, 1, 50, 1234, 5000000}

Valores ==
    {Pos(0, m) : m \in FraccionesMenor1}
        \cup {Pos(e, m) : e \in EnterosMuestra \ {0}, m \in FraccionesMayor1}
        \cup ({Neg(e, m) : e \in EnterosNeg, m \in FraccionesNeg} \ {Neg(0, 0)})

\* inputs that are not numbers: absent, null, NaN, empty and non-numeric text
NoNumericos ==
    {Undef, Null, NaN, Str(<<>>), Str(<<" ">>), Str(<<"a", "b", "c">>), Str(<<"$", "5">>),
     Str(<<"-">>), Str(<<".">>), Str(<<"N", "/", "A">>), Str(<<"a", "1">>)}

\* numeric text, as read from an element or a JSON payload
TextosNumericos ==
    {Str(<<"1", "2", ".", "5">>), Str(<<" ", "4", "2">>), Str(<<"-", "7">>),
     Str(<<"1", "2", "a", "b">>), Str(<<"1", ".", "2", "3", "4", ",", "5", "6">>),
     Str(<<".", "5">>), Str(<<"0">>), Str(<<"-", "0">>)}

Entradas == Valores \cup NoNumericos \cup TextosNumericos

\* decimal-place arguments: omitted, -1, 0..MaxDec and the engine limits
Decimales ==
    {Undef} \cup {Entero(k) : k \in (-1..MaxDec) \cup {20, 21, 100, 101}}

Simbolos == {Undef, Str(<<"$">>), Str(<<"U", "S", "D", " ">>), Str(<<>>)}

-----------------------------------------------------------------------------
(* Direct calls of the formatting functions: the call is drawn at the start, *)
(* the action runs the function on it                                       *)

Llamada(fn, numero, simbolo, decimales) ==
    [fn |-> fn, numero |-> numero, simbolo |-> simbolo, decimales |-> decimales,
     hecha |-> FALSE]

Ninguna == [Llamada("ninguna", Undef, Undef, Undef) EXCEPT !.hecha = TRUE]

Llamadas ==
    {Llamada("formatoNumero", v, Undef, d) : v \in Entradas, d \in Decimales}
    \cup {Llamada("formatoMoneda", v, s, d) : v \in Entradas, s \in Simbolos, d \in Decimales}
    \cup {Llamada("formatoPorcentaje", v, Undef, d) : v \in Entradas, d \in Decimales}
    \cup {Llamada("formatoCompacto", v, Undef, Undef) : v \in Entradas}

Devolver(r) ==
    /\ resultado' = r
    /\ llamada' = [llamada EXCEPT !.hecha = TRUE]
    /\ UNCHANGED <<limFD, varsDom>>

LlamarFormatoNumero ==
    /\ llamada.fn = "formatoNumero" /\ ~ llamada.hecha
    /\ Devolver(formatoNumero(llamada.numero, llamada.decimales))

LlamarFormatoMoneda ==
    /\ llamada.fn = "formatoMoneda" /\ ~ llamada.hecha
    /\ Devolver(formatoMoneda(llamada.numero, llamada.simbolo, llamada.decimales))

LlamarFormatoPorcentaje ==
    /\ llamada.fn = "formatoPorcentaje" /\ ~ llamada.hecha
    /\ Devolver(formatoPorcentaje(llamada.numero, llamada.decimales))

LlamarFormatoCompacto ==
    /\ llamada.fn = "formatoCompacto" /\ ~ llamada.hecha
    /\ Devolver(formatoCompacto(llamada.numero))

-----------------------------------------------------------------------------
(* The page.  An element has an id ("" when it has none), the attributes    *)
(* data-format, data-decimales and data-simbolo as getAttribute returns     *)
(* them (Null when absent), the class of a dismissible alert, its           *)
(* textContent, and whether it is still in the document.  The mode names of *)
(* data-format are only compared for equality and are kept as whole strings.*)

Elementos == 1..2

Elemento(id, formato, decimales, simbolo, alerta, texto) ==
    [id |-> id, formato |-> formato, decimales |-> decimales, simbolo |-> simbolo,
     alerta |-> alerta, texto |-> texto, presente |-> TRUE]

TextosFuente ==
    {<<"1", "5", "0", "0">>, <<"0", ".", "8", "5">>, <<"1", "2", "3", "4", "5", "6", "7">>,
     <<"N", "/", "A">>}

AtributosDecimales == {Null, Str(<<"2">>), Str(<<"d", "o", "s">>)}

IdsReloj == {"fechaActual", "horaActual"}

\* elements carrying data-format, as the templates may write them
PlantillasFormato ==
    {Elemento("", Str(f), d, Null, FALSE, tx) :
        f \in {"numero", "moneda", "porcentaje", "compacto", "otro"},
        d \in AtributosDecimales, tx \in TextosFuente}
    \cup {Elemento("", Str("moneda"), Null, sb, FALSE, tx) :
        sb \in {Str(<<"U", "S", "D", " ">>), Str(<<>>)}, tx \in TextosFuente}

\* elements without data-format: plain text, dismissible alerts, the clock
PlantillasSinFormato ==
    {Elemento("", Null, Null, Null, al, <<"7", "5">>) : al \in BOOLEAN}
    \cup {Elemento(id, Null, Null, Null, FALSE, <<>>) : id \in IdsReloj}

\* a clock element that also carries data-format
PlantillasRelojFormato ==
    {Elemento(id, Str(f), Null, Null, FALSE, <<"7", "5">>) :
        id \in IdsReloj, f \in {"numero", "otro"}}

Plantillas == PlantillasFormato \cup PlantillasSinFormato \cup PlantillasRelojFormato

\* the markup of the application's templates: the clock elements carry no
\* data-format attribute
PlantillasRepo == {el \in Plantillas : el.id \in IdsReloj => el.formato = Null}

-----------------------------------------------------------------------------
(* src/unnamed/part_000: formatearElementos *)

\* document.querySelectorAll('[data-format]')
ConDataFormat(d) == {e \in Elementos : d[e].presente /\ d[e].formato # Null}

ModosReconocidos == {"numero", "moneda", "porcentaje", "compacto"}

\* the callback with the decimals left to each function's default when
\* data-decimales gives none
TextoFormateado_DefectoDeFuncion(el) ==
    LET formato == el.formato.s
        valor == OCero(parseFloat(Str(el.texto)))
        decimales == IF parseInt(el.decimales) = NaN THEN Undef ELSE parseInt(el.decimales)
    IN  CASE formato = "numero" -> formatoNumero(valor, decimales)
          [] formato = "moneda" ->
                LET simbolo == IF el.simbolo = Null \/ el.simbolo.s = <<>>
                               THEN Str(<<"$">>) ELSE el.simbolo
                IN  formatoMoneda(valor, simbolo, decimales)
          [] formato = "porcentaje" -> formatoPorcentaje(valor, decimales)
          [] formato = "compacto" -> formatoCompacto(valor)
          [] OTHER -> el.texto

\* the callback with a default case that formats as a plain number
TextoFormateado_OtroComoNumero(el) ==
    LET formato == el.formato.s
        valor == OCero(parseFloat(Str(el.texto)))
        decimales == OCero(parseInt(el.decimales))
    IN  CASE formato = "moneda" ->
                LET simbolo == IF el.simbolo = Null \/ el.simbolo.s = <<>>
                               THEN Str(<<"$">>) ELSE el.simbolo
                IN  formatoMoneda(valor, simbolo, decimales)
          [] formato = "porcentaje" -> formatoPorcentaje(valor, decimales)
          [] formato = "compacto" -> formatoCompacto(valor)
          [] OTHER -> formatoNumero(valor, decimales)

\* the body of the forEach callback: the new textContent of one element
TextoFormateado(el) ==
    LET formato == el.formato.s
        valor == OCero(parseFloat(Str(el.texto)))
        decimales == OCero(parseInt(el.decimales))
    IN  CASE formato = "numero" -> formatoNumero(valor, decimales)
          [] formato = "moneda" ->
                LET simbolo == IF el.simbolo = Null \/ el.simbolo.s = <<>>
                               THEN Str(<<"$">>) ELSE el.simbolo
                IN  formatoMoneda(valor, simbolo, decimales)
          [] formato = "porcentaje" -> formatoPorcentaje(valor, decimales)
          [] formato = "compacto" -> formatoCompacto(valor)
          [] OTHER -> el.texto

\* function formatearElementos(): the page after the pass
formatearElementos(d) ==
    [e \in Elementos |->
        IF e \in ConDataFormat(d) THEN [d[e] EXCEPT !.texto = TextoFormateado(d[e])]
        ELSE d[e]]

\* the elements whose textContent the pass assigns / reads
EscribeFormato(d) == {e \in ConDataFormat(d) : d[e].formato.s \in ModosReconocidos}
LeeFormato(d) == ConDataFormat(d)

-----------------------------------------------------------------------------
(* src/static/js/main.js *)

\* a lookup that returns the first element of the document, whatever its id
getElementById_Primero(d, id) ==
    LET con == {e \in Elementos : d[e].presente}
    IN  IF con = {} THEN 0 ELSE CHOOSE e \in con : \A o \in con : e <= o

\* document.getElementById(id): the first element of the document with that
\* id, 0 standing for null
getElementById(d, id) ==
    LET con == {e \in Elementos : d[e].presente /\ d[e].id = id}
    IN  IF con = {} THEN 0 ELSE CHOOSE e \in con : \A o \in con : e <= o

\* ahora.toLocaleDateString('es-CO', opciones): the date does not change
\* within the seconds modelled
FechaTexto ==
    <<"l", "u", "n", "e", "s", ",", " ", "1", " ", "d", "e", " ", "e", "n", "e", "r", "o">>

\* ahora.toLocaleTimeString('es-CO') at t seconds after page load
HoraTexto(t) == <<"9", ":", "0", "0", ":", "0", Dig(t % 10)>>

\* function updateDateTime(): the page after the update at time t
updateDateTime(d, t) ==
    LET fechaActual == getElementById(d, "fechaActual")
        horaActual == getElementById(d, "horaActual")
    IN  [e \in Elementos |->
            IF e = fechaActual THEN [d[e] EXCEPT !.texto = FechaTexto]
            ELSE IF e = horaActual THEN [d[e] EXCEPT !.texto = HoraTexto(t)]
            ELSE d[e]]

\* the elements whose textContent updateDateTime assigns
EscribeReloj(d) == {getElementById(d, "fechaActual"), getElementById(d, "horaActual")} \ {0}

\* document.querySelectorAll('.alert:not(.alert-permanent)')
Alertas(d) == {e \in Elementos : d[e].presente /\ d[e].alerta}

-----------------------------------------------------------------------------
(* The page's life: the handlers act on the record of the page state *)

Estado ==
    [dom |-> dom, pasadas |-> pasadas, historia |-> historia, timers |-> timers,
     intervalo |-> intervalo, ahora |-> ahora, escritoPor |-> escritoPor,
     leidoPor |-> leidoPor]

Textos(d) == [e \in Elementos |-> d[e].texto]

Anotar(quien, marcados, quienes) ==
    [e \in Elementos |-> IF e \in marcados THEN quienes[e] \cup {quien} ELSE quienes[e]]

\* one run of formatearElementos, with its history
PasadaFormato(st) ==
    LET despues == formatearElementos(st.dom)
    IN  [st EXCEPT !.dom = despues,
                   !.pasadas = @ + 1,
                   !.historia = Append(@, [antes |-> Textos(st.dom), despues |-> Textos(despues)]),
                   !.escritoPor = Anotar("formato", EscribeFormato(st.dom), @),
                   !.leidoPor = Anotar("formato", LeeFormato(st.dom), @)]

\* one run of updateDateTime, with its history
PasadaReloj(st) ==
    [st EXCEPT !.dom = updateDateTime(st.dom, st.ahora),
               !.escritoPor = Anotar("reloj", EscribeReloj(st.dom), @)]

\* the DOMContentLoaded listener of main.js: a timeout per dismissible alert,
\* the first clock update, then the 1 s interval
EscuchaMain(st) ==
    LET s1 == [st EXCEPT !.timers = @ \cup Alertas(st.dom)]
        s2 == PasadaReloj(s1)
    IN  [s2 EXCEPT !.intervalo = TRUE]

Escucha(nombre, st) == IF nombre = "formato" THEN PasadaFormato(st) ELSE EscuchaMain(st)

RECURSIVE Despachar(_, _)
\* the listeners run one after the other, in registration order
Despachar(ls, st) == IF ls = <<>> THEN st ELSE Despachar(Tail(ls), Escucha(Head(ls), st))

Asignar(st) ==
    /\ dom' = st.dom
    /\ pasadas' = st.pasadas
    /\ historia' = st.historia
    /\ timers' = st.timers
    /\ intervalo' = st.intervalo
    /\ ahora' = st.ahora
    /\ escritoPor' = st.escritoPor
    /\ leidoPor' = st.leidoPor

\* the browser dispatches DOMContentLoaded, once
DOMContentLoaded ==
    /\ ~ cargado
    /\ cargado' = TRUE
    /\ Asignar(Despachar(escuchas, Estado))
    /\ UNCHANGED <<limFD, varsFn, escuchas>>

\* setInterval(updateDateTime, 1000) fires
Intervalo ==
    /\ intervalo
    /\ ahora < MaxTicks
    /\ Asignar(PasadaReloj([Estado EXCEPT !.ahora = @ + 1]))
    /\ UNCHANGED <<limFD, varsFn, escuchas, cargado>>

\* the 5 s timeout of an alert fires: bsAlert.close() takes it off the page
\* (the model does not relate the timeout to the clock's seconds)
TimeoutAlerta ==
    \E e \in timers :
        /\ timers' = timers \ {e}
        /\ dom' = [dom EXCEPT ![e].presente = FALSE]
        /\ UNCHANGED <<limFD, varsFn, escuchas, cargado, pasadas, historia, intervalo,
                       ahora, escritoPor, leidoPor>>

\* a script of the page calls formatearElementos() again
LlamarFormatearElementos ==
    /\ cargado
    /\ \E i \in 1..Len(escuchas) : escuchas[i] = "formato"
    /\ pasadas < MaxPasadas
    /\ Asignar(PasadaFormato(Estado))
    /\ UNCHANGED <<limFD, varsFn, escuchas, cargado>>

-----------------------------------------------------------------------------
(* Specifications *)

SinPagina == [e \in Elementos |-> Elemento("", Null, Null, Null, FALSE, <<>>)]

\* the scripts a page includes, in order: the formatter alone or with main.js
ScriptsDePagina == {<<"formato">>, <<"formato", "main">>, <<"main", "formato">>}

InitComun ==
    /\ limFD \in LimitesFD
    /\ resultado = <<>>
    /\ cargado = FALSE
    /\ pasadas = 0
    /\ historia = <<>>
    /\ timers = {}
    /\ intervalo = FALSE
    /\ ahora = 0
    /\ escritoPor = [e \in Elementos |-> {}]
    /\ leidoPor = [e \in Elementos |-> {}]

\* direct calls of the four functions, on no page
InitFn == InitComun /\ llamada \in Llamadas /\ dom = SinPagina /\ escuchas = <<>>

NextFn ==
    \/ LlamarFormatoNumero
    \/ LlamarFormatoMoneda
    \/ LlamarFormatoPorcentaje
    \/ LlamarFormatoCompacto

SpecFn == InitFn /\ [][NextFn]_vars

\* a page with any markup
Init ==
    /\ InitComun
    /\ llamada = Ninguna
    /\ dom \in [Elementos -> Plantillas]
    /\ escuchas \in ScriptsDePagina

Next ==
    \/ DOMContentLoaded
    \/ Intervalo
    \/ TimeoutAlerta
    \/ LlamarFormatearElementos

Spec == Init /\ [][Next]_vars

\* a page of the application
InitRepo ==
    /\ InitComun
    /\ llamada = Ninguna
    /\ dom \in [Elementos -> PlantillasRepo]
    /\ escuchas \in ScriptsDePagina

SpecRepo == InitRepo /\ [][Next]_vars

-----------------------------------------------------------------------------
(* Reading a formatted string back, for the properties below *)

SinSigno(s) == IF s # <<>> /\ s[1] = "-" THEN Tail(s) ELSE s

\* the position of the first c in s, 0 when there is none
Posicion(c, s) ==
    IF \E i \in 1..Len(s) : s[i] = c
    THEN CHOOSE i \in 1..Len(s) : s[i] = c /\ \A j \in 1..(i - 1) : s[j] # c
    ELSE 0

SoloDigitos(s) == \A i \in 1..Len(s) : EsDigito(s[i])

\* the digits after the decimal comma: how many, and whether they are digits
ParteDecimal(s) == IF Posicion(",", s) = 0 THEN <<>> ELSE SubSeq(s, Posicion(",", s) + 1, Len(s))
ParteEntera(s) == IF Posicion(",", s) = 0 THEN s ELSE SubSeq(s, 1, Posicion(",", s) - 1)

RECURSIVE GruposDeTres(_)
\* s is empty or a repetition of "." followed by exactly three digits
GruposDeTres(s) ==
    \/ s = <<>>
    \/ /\ Len(s) >= 4
       /\ s[1] = "."
       /\ SoloDigitos(SubSeq(s, 2, 4))
       /\ GruposDeTres(SubSeq(s, 5, Len(s)))

\* s is a leading cluster of 1 to 3 digits followed by "."-separated clusters of three
Agrupado(s) ==
    LET n == NumDigitos(s)
    IN  n \in 1..3 /\ GruposDeTres(SubSeq(s, n + 1, Len(s)))

\* s has the es-CO shape with exactly d fractional digits
FormaEsCO(s, d) ==
    LET u == SinSigno(s)
    IN  /\ Agrupado(ParteEntera(u))
        /\ (d = 0 => Posicion(",", u) = 0)
        /\ (d > 0 => Posicion(",", u) > 0)
        /\ Len(ParteDecimal(u)) = d
        /\ SoloDigitos(ParteDecimal(u))

Hecha(fn) == llamada.fn = fn /\ llamada.hecha

\* the decimal-places count of the call, its default when omitted
DecDe(def) == AEntero(PorDefecto(llamada.decimales, Entero(def)))

-----------------------------------------------------------------------------
(* C1 *)

\* C1 as stated: for every finite number v and every d >= 0, formatoNumero(v, d)
\* has exactly d digits after the "," (no "," when d = 0) and integer digits
\* in "."-separated clusters of three, the leading one of 1 to 3 digits.
C1_TodoDecimal ==
    (Hecha("formatoNumero") /\ llamada.numero.t = "num" /\ DecDe(0) >= 0)
        => FormaEsCO(resultado, DecDe(0))

\* C1 amended: the same for every d from 0 to the engine's limit for
\* maximumFractionDigits; formatoNumero(100000) = "100.000" and
\* formatoNumero(1234.56, 2) = "1.234,56".
C1_FormaNumero ==
    /\ (Hecha("formatoNumero") /\ llamada.numero.t = "num" /\ DecDe(0) \in 0..limFD)
            => FormaEsCO(resultado, DecDe(0))
    /\ (Hecha("formatoNumero") /\ llamada.numero = Pos(100000, 0) /\ llamada.decimales = Undef)
            => resultado = <<"1", "0", "0", ".", "0", "0", "0">>
    /\ (Hecha("formatoNumero") /\ llamada.numero = Pos(1234, 560) /\ llamada.decimales = Entero(2))
            => resultado = <<"1", ".", "2", "3", "4", ",", "5", "6">>

C1_Testigo ==
    /\ Hecha("formatoNumero")
    /\ llamada.numero = Pos(1500000, 500)
    /\ llamada.decimales = Entero(3)
    /\ resultado = <<"1", ".", "5", "0", "0", ".", "0", "0", "0", ",", "5", "0", "0">>

-----------------------------------------------------------------------------
(* C2 *)

-----------------------------------------------------------------------------
(* C3 and C10 *)

Sufijo(s) == s[Len(s)]
Cuerpo(s) == SubSeq(s, 1, Len(s) - 1)

\* the number of tenths written by "<digits>.<digit>", -1 for any other string
Decimas(c) ==
    IF /\ Len(c) >= 3
       /\ c[Len(c) - 1] = "."
       /\ SoloDigitos(SubSeq(c, 1, Len(c) - 2))
       /\ EsDigito(c[Len(c)])
    THEN 10 * ValorDe(SubSeq(c, 1, Len(c) - 2)) + ValDig(c[Len(c)])
    ELSE -1

\* m tenths is x / div rounded to one decimal: |x - m * div/10| <= div/20
RedondeaA(x, div, m) ==
    LET u == div \div 10
        dif == x.ent - m * u
    IN  /\ m >= 0
        /\ dif >= 0 - (u \div 2)
        /\ dif <= (IF x.mil = 0 THEN u \div 2 ELSE (u \div 2) - 1)

\* C3: formatoCompacto tests the thresholds from the largest down: B from 10^9,
\* M from 10^6, K from 1000, each with the quotient rounded to one decimal;
\* every other value (below 1000, negative) is its plain string; 1500 gives
\* "1.5K", 2500000 gives "2.5M", 999 gives "999".
C3_Compacto ==
    /\ (Hecha("formatoCompacto") /\ llamada.numero.t = "num") =>
            LET v == llamada.numero
                m == Decimas(Cuerpo(resultado))
            IN  /\ (~ v.neg /\ v.ent >= 1000000000)
                        => Sufijo(resultado) = "B" /\ RedondeaA(v, 1000000000, m)
                /\ (~ v.neg /\ v.ent >= 1000000 /\ v.ent < 1000000000)
                        => Sufijo(resultado) = "M" /\ RedondeaA(v, 1000000, m)
                /\ (~ v.neg /\ v.ent >= 1000 /\ v.ent < 1000000)
                        => Sufijo(resultado) = "K" /\ RedondeaA(v, 1000, m)
                /\ (v.neg \/ v.ent < 1000)
                        => /\ resultado = toString(v)
                           /\ \A i \in 1..Len(resultado) : EsDigito(resultado[i]) \/ resultado[i] \in {"-", "."}
                           /\ Posicion(".", resultado) # 0 => resultado[Len(resultado)] # "0"
    /\ (Hecha("formatoCompacto") /\ llamada.numero = Pos(1500, 0))
            => resultado = <<"1", ".", "5", "K">>
    /\ (Hecha("formatoCompacto") /\ llamada.numero = Pos(2500000, 0))
            => resultado = <<"2", ".", "5", "M">>
    /\ (Hecha("formatoCompacto") /\ llamada.numero = Pos(999, 0))
            => resultado = <<"9", "9", "9">>
    /\ (Hecha("formatoCompacto") /\ llamada.numero = Neg(5000000, 0))
            => resultado = <<"-", "5", "0", "0", "0", "0", "0", "0">>

C3_Testigo ==
    /\ Hecha("formatoCompacto")
    /\ llamada.numero = Pos(2500000, 0)
    /\ resultado = <<"2", ".", "5", "M">>

\* C10: for every value >= 1000 the number printed before K, M or B is at
\* least 1.0 and, for K and M, below 1000 (at most 999.9).
C10_ParteNumericaAcotada ==
    (Hecha("formatoCompacto") /\ llamada.numero.t = "num"
        /\ ~ llamada.numero.neg /\ llamada.numero.ent >= 1000) =>
            /\ Decimas(Cuerpo(resultado)) >= 10
            /\ Sufijo(resultado) \in {"K", "M"} => Decimas(Cuerpo(resultado)) < 10000

-----------------------------------------------------------------------------
(* C4 *)

\* the function of the call applied to another first argument
Aplicar(v) ==
    CASE llamada.fn = "formatoNumero" -> formatoNumero(v, llamada.decimales)
      [] llamada.fn = "formatoMoneda" -> formatoMoneda(v, llamada.simbolo, llamada.decimales)
      [] llamada.fn = "formatoPorcentaje" -> formatoPorcentaje(v, llamada.decimales)
      [] llamada.fn = "formatoCompacto" -> formatoCompacto(v)

\* C4: for every non-numeric input (empty string, null, absent, non-numeric
\* text) and any other arguments, each of the four functions returns the string
\* it returns for 0 with the same other arguments.
C4_NoNumericoComoCero ==
    /\ (llamada.hecha /\ llamada.numero \in NoNumericos) => resultado = Aplicar(Pos(0, 0))
    /\ (Hecha("formatoNumero") /\ llamada.numero \in NoNumericos /\ llamada.decimales = Undef)
            => resultado = <<"0">>
    /\ (Hecha("formatoCompacto") /\ llamada.numero \in NoNumericos) => resultado = <<"0">>

C4_Testigo ==
    /\ Hecha("formatoPorcentaje")
    /\ llamada.numero = Str(<<"a", "b", "c">>)
    /\ llamada.decimales = Undef
    /\ resultado = <<"0", ",", "0", "%">>

-----------------------------------------------------------------------------
(* C7 *)

\* C7: formatoMoneda(v, s, d) is s followed directly by formatoNumero(v, d), s
\* defaulting to "$" and d to 0; formatoMoneda(100000) = "$100.000" and
\* formatoMoneda(1500000.50, "$", 2) = "$1.500.000,50".
C7_MonedaEsSimboloMasNumero ==
    /\ Hecha("formatoMoneda") =>
            LET s == IF llamada.simbolo = Undef THEN <<"$">> ELSE llamada.simbolo.s
                d == IF llamada.decimales = Undef THEN Entero(0) ELSE llamada.decimales
            IN  resultado = s \o formatoNumero(llamada.numero, d)
    /\ (Hecha("formatoMoneda") /\ llamada.numero = Pos(100000, 0)
            /\ llamada.simbolo = Undef /\ llamada.decimales = Undef)
            => resultado = <<"$", "1", "0", "0", ".", "0", "0", "0">>
    /\ (Hecha("formatoMoneda") /\ llamada.numero = Pos(1500000, 500)
            /\ llamada.simbolo = Str(<<"$">>) /\ llamada.decimales = Entero(2))
            => resultado = <<"$", "1", ".", "5", "0", "0", ".", "0", "0", "0", ",", "5", "0">>

C7_Testigo ==
    /\ Hecha("formatoMoneda")
    /\ llamada.numero = Pos(1500000, 500)
    /\ llamada.simbolo = Str(<<"$">>)
    /\ llamada.decimales = Entero(2)
    /\ resultado = <<"$", "1", ".", "5", "0", "0", ".", "0", "0", "0", ",", "5", "0">>

-----------------------------------------------------------------------------
(* C5, C6, C8: the declarative pass *)

\* the runs of formatearElementos so far
Pasadas == 1..Len(historia)

ModoDe(e) == IF dom[e].formato = Null THEN "" ELSE dom[e].formato.s

\* data-decimales is absent or holds no integer
SinDecimales(e) ==
    \/ dom[e].decimales = Null
    \/ \A i \in 1..Len(dom[e].decimales.s) : ~ EsDigito(dom[e].decimales.s[i])

\* the number of digits that follow the decimal comma of s
DigitosTrasComa(s) == NumDigitos(ParteDecimal(s))

\* C5 as stated: without a usable data-decimales the pass formats with the
\* default of the function selected: 0 decimals for numero and moneda, 1 for
\* porcentaje.
C5_DefectoDeLaOperacion ==
    \A i \in Pasadas : \A e \in Elementos :
        (SinDecimales(e) /\ ModoDe(e) \in {"numero", "moneda", "porcentaje"}) =>
            DigitosTrasComa(historia[i].despues[e])
                = (IF ModoDe(e) = "porcentaje" THEN 1 ELSE 0)

\* C5 amended: without a usable data-decimales the pass formats with 0
\* decimals for numero, moneda and porcentaje alike.
C5_CeroDecimales ==
    \A i \in Pasadas : \A e \in Elementos :
        (SinDecimales(e) /\ ModoDe(e) \in {"numero", "moneda", "porcentaje"}) =>
            /\ DigitosTrasComa(historia[i].despues[e]) = 0
            /\ Posicion(",", historia[i].despues[e]) = 0

C5_Testigo ==
    \E e \in Elementos :
        /\ ModoDe(e) = "porcentaje"
        /\ dom[e].decimales = Null
        /\ Len(historia) >= 1
        /\ historia[1].antes[e] = <<"0", ".", "8", "5">>
        /\ historia[1].despues[e] = <<"8", "5", "%">>

\* C6: a run of the pass leaves the text of every element without data-format,
\* and of every element whose data-format is not numero, moneda, porcentaje or
\* compacto, as it was.
C6_SinModoSinCambio ==
    \A i \in Pasadas : \A e \in Elementos :
        ModoDe(e) \notin {"numero", "moneda", "porcentaje", "compacto"} =>
            historia[i].despues[e] = historia[i].antes[e]

C6_Testigo ==
    \E e, o \in Elementos :
        /\ ModoDe(e) = "otro"
        /\ dom[o].formato = Null
        /\ Len(historia) >= 1
        /\ historia[1].antes[e] = <<"1", "5", "0", "0">>
        /\ dom[e].texto = <<"1", "5", "0", "0">>
        /\ ModoDe(o) = ""
        /\ historia[1].despues[o] = historia[1].antes[o]

Contiene(c, s) == \E i \in 1..Len(s) : s[i] = c

\* C8: a later run reads the displayed string of the run before as its
\* number, so the pass is not idempotent: whenever an element formatted as
\* numero, moneda or porcentaje shows a "." group separator, the next run
\* changes its text (1234567 shows as "1.234.567" and then as "1").
C8_SegundaPasadaCambia ==
    \A e \in Elementos :
        (dom[e].id = "" /\ ModoDe(e) \in {"numero", "moneda", "porcentaje"}) =>
            /\ \A i \in Pasadas \ {1} :
                /\ historia[i].antes[e] = historia[i - 1].despues[e]
                /\ Contiene(".", historia[i - 1].despues[e])
                        => historia[i].despues[e] # historia[i - 1].despues[e]
            /\ (Len(historia) >= 2 /\ ModoDe(e) = "numero" /\ SinDecimales(e)
                    /\ historia[1].antes[e] = <<"1", "2", "3", "4", "5", "6", "7">>)
                    => /\ historia[1].despues[e] = <<"1", ".", "2", "3", "4", ".", "5", "6", "7">>
                       /\ historia[2].despues[e] = <<"1">>

C8_Testigo ==
    \E e \in Elementos :
        /\ ModoDe(e) = "numero"
        /\ dom[e].decimales = Null
        /\ Len(historia) >= 2
        /\ historia[1].antes[e] = <<"1", "5", "0", "0">>
        /\ historia[1].despues[e] = <<"1", ".", "5", "0", "0">>
        /\ historia[2].despues[e] = <<"2">>

-----------------------------------------------------------------------------
(* C9 *)

====
